---- MODULE Spec2Model ----
(***************************************************************************)
(* The folder watcher of koemoji (src/folder_watcher/folder_watcher.py)    *)
(* with the two callers that ship with it (src/main.py,                    *)
(* src/folder_watcher/auto_transcriber.py), as a state machine.            *)
(*                                                                         *)
(* Threads: the application thread (start, stop, set_input_directory,      *)
(* set_callback), the consumer threads running process_file_queue, the     *)
(* observer threads delivering on_created, and the GUI's marking thread.   *)
(* A method is split into steps only where another thread can run in       *)
(* between (a blocking join, file I/O, a callback); each step is atomic.   *)
(*                                                                         *)
(* Abstractions, all stated where they are made:                           *)
(*  - md5 is injective on its input string: a fingerprint is the tuple     *)
(*    <<path, size>>, or <<path>> for the path-only fallback;              *)
(*  - datetime.now() is a counter that every mark advances;                *)
(*  - the ledger file is valid JSON, or is being written (opened with "w", *)
(*    so truncated), or was left partial by a failed write.                *)
(***************************************************************************)
EXTENDS Integers, Sequences, FiniteSets, TLC

\* ------------------------------------------------------------------ bounds
MaxFiles == 2
MaxSize == 1
MaxThreads == 2
MaxObservers == 2
MaxRestarts == 1

\* The number of costly steps in one behaviour: files or directories created
\* or removed, marks, failed writes, failed start steps, restarts, and starts
\* that add a consumer thread or an observer to one still running.
MaxCost == 3
MaxQueue == 2
HashMaxSize == 2
HashCalls == 3

\* The ledger's limit: clean_old_processed_files(max_entries = 1000), scaled
\* down so that the ledger can exceed it within the bounds above.
max_entries == 2

Paths == 1..MaxFiles
Sizes == 1..MaxSize
Threads == 1..MaxThreads
Observers == 1..MaxObservers

\* The file names of the watch directory: path p carries the extension
\* ExtNames[..]; ".MP3" is accepted only through lower-casing, ".txt" never.
ExtNames == <<".wav", ".MP3", ".txt">>

ExtOf(p) == ExtNames[((p - 1) % Len(ExtNames)) + 1]

\* str.lower() on the extensions that occur.
lower(e) == CASE e = ".MP3" -> ".mp3" [] e = ".WAV" -> ".wav" [] e = ".TXT" -> ".txt" [] OTHER -> e

DefaultExtensions == {".mp3", ".mp4", ".wav", ".m4a", ".avi", ".mov", ".wmv", ".flac"}

\* A list a caller configures with an upper-case entry.
UpperExtensions == {".WAV"}

WatchDir == "D"

\* Fingerprints of files that earlier runs processed and that are no longer
\* in the watch directory (path 0 stands for their paths).
OldHashes == {<<0, i>> : i \in 1..max_entries}

EmptyLedger == [h \in {} |-> [processed_at |-> 0, status |-> "none"]]

\* shape is the type of the object self.config is bound to: the fields are
\* those of a dict, and are not there when json.load returned a list.
DefaultConfig == [shape |-> "dict", input_directory |-> "", supported_extensions |-> DefaultExtensions, processed_files |-> EmptyLedger]

\* What start_folder_watcher (main.py) and main (auto_transcriber.py) write to
\* the watcher's file before constructing it: no "processed_files" key, which
\* config.get("processed_files", {}) reads as the empty ledger.
AppWrittenFile == [state |-> "valid", input_directory |-> WatchDir, supported_extensions |-> DefaultExtensions, processed_files |-> EmptyLedger]

\* A file left by earlier runs, its ledger filled up to the limit; the entries
\* are older than anything this run marks (now starts at 1).
LeftoverFile == [AppWrittenFile EXCEPT !.processed_files = [h \in OldHashes |-> [processed_at |-> h[2] - max_entries, status |-> "success"]]]

MissingFile == [state |-> "failed", input_directory |-> "", supported_extensions |-> {}, processed_files |-> EmptyLedger]

\* The file an earlier run left whose oldest entry is that of a file of the
\* watch directory, the others those of files that are gone.
KeptHashes == {<<p, s>> \in Paths \X Sizes : p = 1 /\ s = 1} \cup {h \in OldHashes : h[2] > 1}
KeptFile == [AppWrittenFile EXCEPT !.processed_files = [h \in KeptHashes |-> [processed_at |-> (IF h[1] = 0 THEN h[2] ELSE 0) - max_entries, status |-> "failed"]]]

\* A file that is valid JSON but no configuration: the document [].
ListFile == [MissingFile EXCEPT !.state = "list"]

VARIABLES
    fs,                \* watch directory: path -> 0 (absent) or the file's size
    disk,              \* the file at config_path
    config,            \* self.config
    processed_files,   \* self.processed_files (the set object currently bound)
    file_queue,        \* self.file_queue
    observer,          \* self.observer: 0 is None
    obs,               \* the Observer objects and the handler each one holds
    events,            \* creation events not yet delivered to on_created
    processing_thread, \* self.processing_thread: 0 is None
    thr,               \* the consumer threads
    should_stop,       \* self.should_stop
    callback_function, \* self.callback_function
    gui,               \* KoemojiApp: transcriptions to be marked, marking thread
    main,              \* the application thread's position
    ret,               \* what the last start()/stop() call returned
    now,               \* datetime.now()
    hist               \* history for the properties, and the budget spent

vars == <<fs, disk, config, processed_files, file_queue, observer, obs, events, processing_thread, thr, should_stop, callback_function, gui, main, ret, now, hist>>

\* ----------------------------------------------------------------- helpers
Put(f, k, v) == [x \in DOMAIN f \cup {k} |-> IF x = k THEN v ELSE f[x]]

Restrict(f, S) == [x \in S |-> f[x]]

Min(a, b) == IF a < b THEN a ELSE b

\* A fingerprint that is taken from the path alone, whatever the size.
path_hash(p) == <<p>>

\* get_file_hash: md5 of "path:size", or of the path alone when getsize raises.
get_file_hash(p) == IF fs[p] > 0 THEN <<p, fs[p]>> ELSE <<p>>

\* load_config: the parsed file, or the defaults when it is missing or not JSON.
\* The except clause names FileNotFoundError and JSONDecodeError only: any
\* JSON document is returned as it is.
load_config(d) ==
    IF d.state = "valid" THEN [shape |-> "dict", input_directory |-> d.input_directory, supported_extensions |-> d.supported_extensions, processed_files |-> d.processed_files]
    ELSE IF d.state = "list" THEN [DefaultConfig EXCEPT !.shape = "list", !.supported_extensions = {}]
    ELSE DefaultConfig

\* json.dump(self.config): the file after a write that succeeds.
Dumped(c) == [state |-> "valid", input_directory |-> c.input_directory, supported_extensions |-> c.supported_extensions, processed_files |-> c.processed_files]

\* The file while a writer holds it open with "w" and has not finished.
Truncated == [MissingFile EXCEPT !.state = "writing"]

\* save_config in one step: outcome "ok", or "write_fail" (open or json.dump
\* raises after the file was truncated, and the file is left partial). The
\* exception is swallowed and logged (lines 119-120).
SaveOutcomes == {"ok", "write_fail"}

save_config(c, outcome) == IF outcome = "ok" THEN Dumped(c) ELSE MissingFile

\* Two writers had the file open at once, each with its own handle and its
\* own offset: what the file holds is not settled until the last one closes.
Overlapped == [MissingFile EXCEPT !.state = "overlapped"]

\* What overlapping writers can leave: bytes of one dump over the other's,
\* which is not JSON.
Garbled == [MissingFile EXCEPT !.state = "garbled"]

IdleThread == [pc |-> "none", item |-> 0, hash |-> <<>>]

NoObserver == [state |-> "none", stale |-> FALSE, snap |-> {}, exts |-> {}]

Alive(t) == thr[t].pc \notin {"none", "exited"}

\* The thread is handling an item: inside the callback, or inside
\* mark_file_as_processed.
InCallback(t) == thr[t].pc \in {"cb", "m_add", "m_write"}

Running == {o \in Observers : obs[o].state = "running"}

\* The set object an observer's handler holds: the watcher's current one, or
\* the one it was given before self.processed_files was rebound.
HandlerSet(o) == IF obs[o].stale THEN obs[o].snap ELSE processed_files

\* Rebinding self.processed_files (lines 227, 295) leaves running handlers with
\* the old set object.
Rebound == [o \in Observers |-> IF obs[o].state = "running" /\ ~obs[o].stale THEN [obs[o] EXCEPT !.stale = TRUE, !.snap = processed_files] ELSE obs[o]]

Orders(S) == {s \in [1..Cardinality(S) -> S] : \A x \in S : \E i \in 1..Cardinality(S) : s[i] = x}

\* The history forgets a path whose file is created or removed: what is there
\* afterwards is another file.
Forget(hst, p) == [hst EXCEPT !.cbSeen = {h \in @ : h[1] # p}, !.prevRun = {h \in @ : h[1] # p}, !.evicted = {h \in @ : h[1] # p}, !.cost = @ + 1]

\* The history after a step of the environment that the bound MaxCost counts.
Fault(hst, failed) == IF failed THEN [hst EXCEPT !.cost = @ + 1] ELSE hst

\* The budget covers the costly parts of a step.
Charged(parts) == hist.cost + Cardinality({b \in parts : b}) <= MaxCost

\* cbSeen, cbDup: the fingerprints the callback was invoked for since the last
\* start(), and whether one was invoked twice; durable: the fingerprints whose
\* mark wrote the file; prevRun: the ledger file's keys when the application
\* was started again; queuedAtStop: how many of the items that were queued
\* when stop() set the flag are still queued; evicted: what the last start()
\* pruned; ignored: whether, since the last start(), a handler has left out
\* an event for a directory or for a file whose extension is not in its list.
NoHist == [cbSeen |-> {}, cbDup |-> FALSE, durable |-> {}, prevRun |-> {}, evicted |-> {}, ignored |-> FALSE, queuedAtStop |-> 0, restarts |-> 0, cost |-> 0]

\* -------------------------------------------------------------------- Init
\* A FolderWatcher just constructed (lines 80-94) on a file that is missing,
\* was left by earlier runs, or holds some other JSON document.
Constructed ==
    /\ config = load_config(disk)
    /\ processed_files = {}
    /\ file_queue = <<>>
    /\ observer = 0
    /\ obs = [o \in Observers |-> NoObserver]
    /\ events = {}
    /\ processing_thread = 0
    /\ thr = [t \in Threads |-> IdleThread]
    /\ should_stop = FALSE
    /\ callback_function = "None"
    /\ gui = [pending |-> {}, pc |-> "idle", hash |-> <<>>]
    /\ main = [pc |-> "idle", op |-> "none"]
    /\ now = 1
    /\ hist = NoHist

Init ==
    /\ fs = [p \in Paths |-> 0]
    /\ disk \in {MissingFile, LeftoverFile, ListFile}
    /\ ret = "none"
    /\ Constructed

\* ------------------------------------------------- ledger: the file writers
\* The calls of save_config that have opened the file and not yet closed it
\* (lines 116-117), on the consumer threads, the GUI's marking thread and the
\* application thread.
OpenWriters == Cardinality({t \in Threads : thr[t].pc = "m_write"}) + (IF gui.pc = "m_write" THEN 1 ELSE 0) + (IF main.pc = "saving" THEN 1 ELSE 0)

\* The file after one more open(config_path, "w"), line 116.
Opened == IF OpenWriters > 0 THEN Overlapped ELSE Truncated

\* The file after a writer's json.dump and close, line 117 (written), or
\* after its write failed (lines 119-120). While another writer still has the
\* file open nothing is settled; the last of overlapping writers leaves its
\* dump or a mix of both.
Closed(written) ==
    IF OpenWriters > 1 THEN {Overlapped}
    ELSE IF ~written THEN {MissingFile}
    ELSE IF disk.state = "overlapped" THEN {Dumped(config), Garbled}
    ELSE {Dumped(config)}

\* ---------------------------------------------------- ledger: mark, prune
\* mark_file_as_processed, lines 130-146: fingerprint, entry, insertion into
\* self.config["processed_files"]. The set and the file follow in mark_add and
\* mark_write.
mark_insert(p, status, hst) ==
    /\ hist.cost < MaxCost
    /\ hist' = [hst EXCEPT !.cost = @ + 1]
    /\ config' = [config EXCEPT !.processed_files = Put(@, get_file_hash(p), [processed_at |-> now, status |-> status])]
    /\ now' = now + 1

\* sorted(processed_files.items(), key=processed_at, reverse=True), lines 284-288.
RECURSIVE sorted_entries(_, _)
sorted_entries(f, K) == IF K = {} THEN <<>> ELSE LET m == CHOOSE k \in K : \A j \in K : f[k].processed_at >= f[j].processed_at IN <<m>> \o sorted_entries(f, K \ {m})

\* The slice taken one entry too long.
PrunedOffByOne(f, n) == LET s == sorted_entries(f, DOMAIN f) IN Restrict(f, {s[i] : i \in 1..Min(n + 1, Len(s))})

\* The sort without reverse=True: the oldest entries are kept.
PrunedOldest(f, n) == LET s == sorted_entries(f, DOMAIN f) IN Restrict(f, {s[i] : i \in (Len(s) - Min(n, Len(s)) + 1)..Len(s)})

\* dict(sorted_entries[:max_entries]), line 291.
Pruned(f, n) == LET s == sorted_entries(f, DOMAIN f) IN Restrict(f, {s[i] : i \in 1..Min(n, Len(s))})

\* clean_old_processed_files(n), lines 275-297, in one step: prune, save,
\* rebuild the set (a new set object).
clean_old_processed_files(n, outcome) ==
    IF Cardinality(DOMAIN config.processed_files) > n
    THEN LET cfg == [config EXCEPT !.processed_files = Pruned(@, n)] IN
         /\ config' = cfg
         /\ disk' = save_config(cfg, outcome)
         /\ processed_files' = DOMAIN cfg.processed_files
         /\ obs' = Rebound
    ELSE /\ outcome = "ok"
         /\ UNCHANGED <<config, disk, processed_files, obs>>

\* ------------------------------------------------- application thread steps
FreeThread == CHOOSE t \in Threads : ~Alive(t) /\ \A u \in Threads : ~Alive(u) => t <= u

FreeObserver == CHOOSE o \in Observers : obs[o].state = "none" /\ \A u \in Observers : obs[u].state = "none" => o <= u

Return(value) ==
    /\ main' = [pc |-> "idle", op |-> "none"]
    /\ ret' = value

\* start(), lines 305-311: clean_old_processed_files(), should_stop = False,
\* a new consumer thread is started.
start_begin ==
    /\ main.pc = "idle"
    /\ config.shape = "dict"
    /\ \E t \in Threads : ~Alive(t)
    /\ \E outcome \in SaveOutcomes :
          /\ clean_old_processed_files(max_entries, outcome)
          /\ Charged({outcome # "ok", \E t \in Threads : Alive(t)})
          /\ hist' = Fault(Fault([hist EXCEPT !.cbSeen = {}, !.cbDup = FALSE, !.ignored = FALSE, !.queuedAtStop = 0, !.durable = @ \cap DOMAIN config'.processed_files, !.evicted = DOMAIN config.processed_files \ DOMAIN config'.processed_files], outcome # "ok"), \E t \in Threads : Alive(t))
    /\ should_stop' = FALSE
    /\ thr' = [thr EXCEPT ![FreeThread] = [pc |-> "loop", item |-> 0, hash |-> <<>>]]
    /\ processing_thread' = FreeThread
    /\ main' = [pc |-> "start_watch", op |-> "start"]
    /\ ret' = "none"
    /\ UNCHANGED <<fs, file_queue, observer, events, callback_function, gui, now>>

\* start(), line 306, on a configuration that is no dict:
\* clean_old_processed_files() calls self.config.get (line 275), which raises
\* AttributeError out of start() before anything was started.
start_raises ==
    /\ main.pc = "idle"
    /\ config.shape # "dict"
    /\ Return("start_raised")
    /\ UNCHANGED <<fs, disk, config, processed_files, file_queue, observer, obs, events, processing_thread, thr, should_stop, callback_function, gui, now, hist>>

\* start_file_watcher(), lines 210-238, and the branch of start() on its
\* result (lines 314-316). makedirs and the Observer calls are the
\* environment's: "mkdir_fail" is line 220, "observer_fail" is Observer()
\* raising (self.observer keeps its value), "start_fail" is schedule() or
\* start() raising after self.observer was assigned (the Observer thread was
\* never started).
start_file_watcher ==
    /\ main.pc = "start_watch"
    /\ \E outcome \in {"no_dir", "mkdir_fail", "observer_fail", "start_fail", "ok"} :
          /\ (outcome = "no_dir") <=> (config.input_directory = "")
          /\ Charged({outcome \notin {"no_dir", "ok"}, outcome \in {"start_fail", "ok"} /\ Running # {}})
          /\ hist' = Fault(Fault(hist, outcome \notin {"no_dir", "ok"}), outcome \in {"start_fail", "ok"} /\ Running # {})
          /\ IF outcome \in {"no_dir", "mkdir_fail"}
             THEN /\ main' = [main EXCEPT !.pc = "stop_begin"]
                  /\ UNCHANGED <<processed_files, obs, observer>>
             ELSE /\ processed_files' = DOMAIN config.processed_files
                  /\ IF outcome = "observer_fail"
                     THEN /\ main' = [main EXCEPT !.pc = "stop_begin"]
                          /\ obs' = Rebound
                          /\ UNCHANGED observer
                     ELSE /\ \E o \in Observers : obs[o].state = "none"
                          /\ obs' = [o \in Observers |->
                                       IF o = FreeObserver
                                       THEN [state |-> IF outcome = "ok" THEN "running" ELSE "unstarted", stale |-> FALSE, snap |-> {}, exts |-> config.supported_extensions]
                                       ELSE IF o = observer /\ obs[o].state = "unstarted" THEN NoObserver
                                       ELSE Rebound[o]]
                          /\ observer' = FreeObserver
                          /\ main' = [main EXCEPT !.pc = IF outcome = "ok" THEN "start_scan" ELSE "stop_begin"]
    /\ UNCHANGED <<fs, disk, config, file_queue, events, processing_thread, thr, should_stop, callback_function, gui, ret, now>>

\* A scan that finds nothing to queue.
NothingUnprocessed == {}

\* The files check_existing_files puts on the queue, lines 242-262.
Unprocessed == IF config.input_directory = "" THEN {} ELSE {p \in Paths : fs[p] > 0 /\ lower(ExtOf(p)) \in config.supported_extensions /\ get_file_hash(p) \notin processed_files}

\* check_existing_files(), then start() returns True (lines 319-322).
\* os.listdir gives the files in any order.
check_existing_files ==
    /\ main.pc = "start_scan"
    /\ Len(file_queue) + Cardinality(Unprocessed) <= MaxQueue
    /\ \E order \in Orders(Unprocessed) : file_queue' = file_queue \o order
    /\ Return("start_true")
    /\ UNCHANGED <<fs, disk, config, processed_files, observer, obs, events, processing_thread, thr, should_stop, callback_function, gui, now, hist>>

\* stop() without the test of line 330: observer.stop() on None raises.
stop_unguarded ==
    /\ main.pc \in {"idle", "stop_begin"}
    /\ should_stop' = TRUE
    /\ hist' = [hist EXCEPT !.queuedAtStop = Len(file_queue)]
    /\ LET op == IF main.pc = "idle" THEN "stop" ELSE main.op IN
       IF observer = 0 \/ obs[observer].state = "unstarted"
       THEN /\ Return(IF op = "start" THEN "start_raised" ELSE "stop_raised")
            /\ UNCHANGED <<observer, obs, events>>
       ELSE /\ main' = [pc |-> "stop_join", op |-> op]
            /\ ret' = "none"
            /\ observer' = 0
            /\ obs' = [o \in Observers |-> IF o = observer THEN NoObserver ELSE obs[o]]
            /\ events' = {e \in events : e.obs # observer}
    /\ UNCHANGED <<fs, disk, config, processed_files, file_queue, processing_thread, thr, callback_function, gui, now>>

\* stop(), lines 327-333: the flag, then observer.stop() and observer.join().
\* Thread.join raises RuntimeError on a thread that was never started, which
\* ends stop() (and a start() that called it) with that exception.
stop_flag ==
    /\ main.pc \in {"idle", "stop_begin"}
    /\ should_stop' = TRUE
    /\ hist' = [hist EXCEPT !.queuedAtStop = Len(file_queue)]
    /\ LET op == IF main.pc = "idle" THEN "stop" ELSE main.op IN
       IF observer # 0 /\ obs[observer].state = "unstarted"
       THEN /\ Return(IF op = "start" THEN "start_raised" ELSE "stop_raised")
            /\ UNCHANGED <<observer, obs, events>>
       ELSE /\ main' = [pc |-> "stop_join", op |-> op]
            /\ ret' = "none"
            /\ observer' = 0
            /\ obs' = [o \in Observers |-> IF o = observer THEN NoObserver ELSE obs[o]]
            /\ events' = {e \in events : e.obs # observer}
    /\ UNCHANGED <<fs, disk, config, processed_files, file_queue, processing_thread, thr, callback_function, gui, now>>

StopReturn == Return(IF main.op = "start" THEN "start_false" ELSE "stop_done")

\* stop(), line 336: is_alive() decides whether the thread is joined at all.
stop_join ==
    /\ main.pc = "stop_join"
    /\ IF processing_thread # 0 /\ Alive(processing_thread)
       THEN main' = [main EXCEPT !.pc = "stop_wait"] /\ UNCHANGED ret
       ELSE StopReturn
    /\ UNCHANGED <<fs, disk, config, processed_files, file_queue, observer, obs, events, processing_thread, thr, should_stop, callback_function, gui, now, hist>>

\* stop(), lines 337-338: join(timeout=5) ends when the thread has exited, or
\* after five seconds while the thread is still inside a callback.
stop_wait ==
    /\ main.pc = "stop_wait"
    /\ ~Alive(processing_thread) \/ InCallback(processing_thread)
    /\ processing_thread' = 0
    /\ StopReturn
    /\ UNCHANGED <<fs, disk, config, processed_files, file_queue, observer, obs, events, thr, should_stop, callback_function, gui, now, hist>>

\* set_input_directory(directory), lines 351-359, for the watch directory:
\* the assignment and save_config's open(.., "w").
set_input_directory ==
    /\ main.pc = "idle"
    /\ config.shape = "dict"
    /\ config' = [config EXCEPT !.input_directory = WatchDir]
    /\ disk' = Opened
    /\ main' = [pc |-> "saving", op |-> "set_input_directory"]
    /\ UNCHANGED <<fs, processed_files, file_queue, observer, obs, events, processing_thread, thr, should_stop, callback_function, gui, ret, now, hist>>

\* set_supported_extensions(extensions), lines 369-370: the assignment binds
\* a new list (a handler keeps the one it was given) and save_config opens
\* the file.  Reconfigurations are counted by the bound MaxCost.
set_supported_extensions ==
    /\ main.pc = "idle"
    /\ config.shape = "dict"
    /\ config.supported_extensions # UpperExtensions
    /\ hist.cost < MaxCost
    /\ config' = [config EXCEPT !.supported_extensions = UpperExtensions]
    /\ disk' = Opened
    /\ main' = [pc |-> "saving", op |-> "set_supported_extensions"]
    /\ hist' = [hist EXCEPT !.cost = @ + 1]
    /\ UNCHANGED <<fs, processed_files, file_queue, observer, obs, events, processing_thread, thr, should_stop, callback_function, gui, ret, now>>

\* save_config, lines 117-120, called by set_input_directory and by
\* set_supported_extensions: the dump.
set_input_directory_save ==
    /\ main.pc = "saving"
    /\ \E outcome \in SaveOutcomes :
          /\ Charged({outcome # "ok"})
          /\ disk' \in Closed(outcome = "ok")
          /\ hist' = Fault(hist, outcome # "ok")
    /\ main' = [pc |-> "idle", op |-> "none"]
    /\ UNCHANGED <<fs, config, processed_files, file_queue, observer, obs, events, processing_thread, thr, should_stop, callback_function, gui, ret, now>>

\* set_callback, line 159: "sync" is process_media_file (auto_transcriber.py),
\* which marks before it returns; "async" is KoemojiApp.process_watched_file
\* (main.py), which returns at once and leaves the mark to a later thread.
set_callback ==
    /\ main.pc = "idle"
    /\ callback_function = "None"
    /\ callback_function' \in {"sync", "async"}
    /\ UNCHANGED <<fs, disk, config, processed_files, file_queue, observer, obs, events, processing_thread, thr, should_stop, gui, main, ret, now, hist>>

\* ------------------------------------------------------ the consumer thread
\* process_file_queue, line 165: the loop test.
process_file_queue_test(t) ==
    /\ thr[t].pc = "loop"
    /\ thr' = [thr EXCEPT ![t].pc = IF should_stop THEN "exited" ELSE "get"]
    /\ UNCHANGED <<fs, disk, config, processed_files, file_queue, observer, obs, events, processing_thread, should_stop, callback_function, gui, main, ret, now, hist>>

\* The history of callback invocations of this session, by fingerprint.
Invoked(h) == [hist EXCEPT !.cbSeen = @ \cup {h}, !.cbDup = @ \/ h \in hist.cbSeen, !.queuedAtStop = IF @ > 0 THEN @ - 1 ELSE 0]

Dequeued == [hist EXCEPT !.queuedAtStop = IF @ > 0 THEN @ - 1 ELSE 0]

\* process_file_queue, lines 166-181: get(timeout=1), the re-check against
\* self.processed_files (the set holds fingerprints, so of "file_path in
\* self.processed_files or file_hash in self.processed_files" the second
\* test decides), then the item is handled: pc "cb".
process_file_queue_get(t) ==
    /\ thr[t].pc = "get"
    /\ IF file_queue = <<>>
       THEN /\ thr' = [thr EXCEPT ![t].pc = "loop"]
            /\ UNCHANGED <<file_queue, hist>>
       ELSE LET p == Head(file_queue)
                h == get_file_hash(p) IN
            /\ file_queue' = Tail(file_queue)
            /\ IF h \in processed_files
               THEN /\ thr' = [thr EXCEPT ![t].pc = "loop"]
                    /\ hist' = Dequeued
               ELSE /\ thr' = [thr EXCEPT ![t] = [pc |-> "cb", item |-> p, hash |-> h]]
                    /\ hist' = IF callback_function # "None" THEN Invoked(h) ELSE Dequeued
    /\ UNCHANGED <<fs, disk, config, processed_files, observer, obs, events, processing_thread, should_stop, callback_function, gui, main, ret, now>>

\* process_file_queue, line 190: with no callback registered the consumer
\* itself calls mark_file_as_processed(file_path).
mark_file_as_processed(t) ==
    /\ thr[t].pc = "cb"
    /\ callback_function = "None"
    /\ mark_insert(thr[t].item, "none", hist)
    /\ thr' = [thr EXCEPT ![t].pc = "m_add", ![t].hash = get_file_hash(thr[t].item)]
    /\ UNCHANGED <<fs, disk, processed_files, file_queue, observer, obs, events, processing_thread, should_stop, callback_function, gui, main, ret>>

\* process_media_file (auto_transcriber.py, lines 97-120): transcribe, then
\* mark_file_as_processed with status success or failed, inside the callback.
process_media_file(t) ==
    /\ thr[t].pc = "cb"
    /\ callback_function = "sync"
    /\ \E status \in {"success", "failed"} : mark_insert(thr[t].item, status, hist)
    /\ thr' = [thr EXCEPT ![t].pc = "m_add", ![t].hash = get_file_hash(thr[t].item)]
    /\ UNCHANGED <<fs, disk, processed_files, file_queue, observer, obs, events, processing_thread, should_stop, callback_function, gui, main, ret>>

\* KoemojiApp.process_watched_file (main.py, lines 773-794): hands the file to
\* the GUI thread and returns; nothing is marked here.
process_watched_file(t) ==
    /\ thr[t].pc = "cb"
    /\ callback_function = "async"
    /\ gui' = [gui EXCEPT !.pending = @ \cup {thr[t].item}]
    /\ thr' = [thr EXCEPT ![t] = [pc |-> "loop", item |-> 0, hash |-> <<>>]]
    /\ UNCHANGED <<fs, disk, config, processed_files, file_queue, observer, obs, events, processing_thread, should_stop, callback_function, main, ret, now, hist>>

\* The except branch taken without a log line: the exception ends the loop.
callback_raises_uncaught(t) ==
    /\ thr[t].pc = "cb"
    /\ callback_function # "None"
    /\ thr' = [thr EXCEPT ![t] = [pc |-> "exited", item |-> 0, hash |-> <<>>]]
    /\ UNCHANGED <<fs, disk, config, processed_files, file_queue, observer, obs, events, processing_thread, should_stop, callback_function, gui, main, ret, now, hist>>

\* process_file_queue, lines 182-187: the callback raises; the exception is
\* caught and logged, task_done() is called and the loop goes on. Nothing is
\* marked.
callback_raises(t) ==
    /\ thr[t].pc = "cb"
    /\ callback_function # "None"
    /\ thr' = [thr EXCEPT ![t] = [pc |-> "loop", item |-> 0, hash |-> <<>>]]
    /\ UNCHANGED <<fs, disk, config, processed_files, file_queue, observer, obs, events, processing_thread, should_stop, callback_function, gui, main, ret, now, hist>>

\* The set add left out.
mark_add_no_set(h) ==
    /\ processed_files' = processed_files
    /\ disk' = Opened

\* mark_file_as_processed, line 147 and save_config's open(.., "w"), line 116:
\* the fingerprint joins the set and the file is truncated.
mark_add_effect(h) ==
    /\ processed_files' = processed_files \cup {h}
    /\ disk' = Opened

\* save_config, lines 117-120: json.dump of self.config as it is now, or a
\* failure that leaves the file partial.
mark_write_effect(h, written) ==
    /\ written \/ hist.cost < MaxCost
    /\ disk' \in Closed(written)
    /\ hist' = IF written THEN [hist EXCEPT !.durable = IF disk' = Dumped(config) THEN @ \cup ({h} \cap DOMAIN config.processed_files) ELSE @] ELSE [hist EXCEPT !.cost = @ + 1]

mark_add(t) ==
    /\ thr[t].pc = "m_add"
    /\ mark_add_effect(thr[t].hash)
    /\ thr' = [thr EXCEPT ![t].pc = "m_write"]
    /\ UNCHANGED <<fs, config, file_queue, observer, obs, events, processing_thread, should_stop, callback_function, gui, main, ret, now, hist>>

mark_write(t) ==
    /\ thr[t].pc = "m_write"
    /\ \E written \in BOOLEAN : mark_write_effect(thr[t].hash, written)
    /\ thr' = [thr EXCEPT ![t] = [pc |-> "loop", item |-> 0, hash |-> <<>>]]
    /\ UNCHANGED <<fs, config, processed_files, file_queue, observer, obs, events, processing_thread, should_stop, callback_function, gui, main, ret, now>>

\* ------------------------------------------------- the GUI's marking thread
\* KoemojiApp.transcribe_file (main.py, lines 629-642): after a transcription
\* that succeeded, a thread calls mark_file_as_processed(input_file, success).
gui_mark_begin ==
    /\ gui.pc = "idle"
    /\ \E p \in gui.pending :
          /\ mark_insert(p, "success", hist)
          /\ gui' = [gui EXCEPT !.pending = @ \ {p}, !.pc = "m_add", !.hash = get_file_hash(p)]
    /\ UNCHANGED <<fs, disk, processed_files, file_queue, observer, obs, events, processing_thread, thr, should_stop, callback_function, main, ret>>

gui_mark_add ==
    /\ gui.pc = "m_add"
    /\ mark_add_effect(gui.hash)
    /\ gui' = [gui EXCEPT !.pc = "m_write"]
    /\ UNCHANGED <<fs, config, file_queue, observer, obs, events, processing_thread, thr, should_stop, callback_function, main, ret, now, hist>>

gui_mark_write ==
    /\ gui.pc = "m_write"
    /\ \E written \in BOOLEAN : mark_write_effect(gui.hash, written)
    /\ gui' = [gui EXCEPT !.pc = "idle", !.hash = <<>>]
    /\ UNCHANGED <<fs, config, processed_files, file_queue, observer, obs, events, processing_thread, thr, should_stop, callback_function, main, ret, now>>

\* ------------------------------------------- the directory and its observers
\* A file appears in the watch directory: every running observer gets a
\* FileCreatedEvent for it.
file_created(p, s) ==
    /\ fs[p] = 0
    /\ hist.cost < MaxCost
    /\ fs' = [fs EXCEPT ![p] = s]
    /\ events' = events \cup {[obs |-> o, path |-> p, is_directory |-> FALSE] : o \in Running}
    /\ hist' = Forget(hist, p)
    /\ UNCHANGED <<disk, config, processed_files, file_queue, observer, obs, processing_thread, thr, should_stop, callback_function, gui, main, ret, now>>

file_removed(p) ==
    /\ fs[p] > 0
    /\ hist.cost < MaxCost
    /\ fs' = [fs EXCEPT ![p] = 0]
    /\ hist' = Forget(hist, p)
    /\ UNCHANGED <<disk, config, processed_files, file_queue, observer, obs, events, processing_thread, thr, should_stop, callback_function, gui, main, ret, now>>

\* A subdirectory is created in the watch directory (its name is no path of
\* Paths: path 0).
dir_created ==
    /\ Running # {}
    /\ hist.cost < MaxCost
    /\ events' = events \cup {[obs |-> o, path |-> 0, is_directory |-> TRUE] : o \in Running}
    /\ hist' = [hist EXCEPT !.cost = @ + 1]
    /\ UNCHANGED <<fs, disk, config, processed_files, file_queue, observer, obs, processing_thread, thr, should_stop, callback_function, gui, main, ret, now>>

\* MediaFileHandler.on_created, lines 56-74, after its one-second sleep: the
\* fingerprint is taken from the file as it is now.
\* The filter with the extension test left out.
AnyExtension(o, e) == ~e.is_directory

\* on_created, lines 58-62: not a directory event, and the lower-cased
\* extension is in the handler's list.
Filtered(o, e) == ~e.is_directory /\ lower(ExtOf(e.path)) \in obs[o].exts

Accepted(o, e) == Filtered(o, e) /\ get_file_hash(e.path) \notin HandlerSet(o)

on_created(o) ==
    /\ obs[o].state = "running"
    /\ \E e \in events :
          /\ e.obs = o
          /\ events' = events \ {e}
          /\ IF Accepted(o, e)
             THEN /\ Len(file_queue) < MaxQueue
                  /\ file_queue' = Append(file_queue, e.path)
             ELSE UNCHANGED file_queue
          /\ hist' = [hist EXCEPT !.ignored = @ \/ ~Filtered(o, e)]
    /\ UNCHANGED <<fs, disk, config, processed_files, observer, obs, processing_thread, thr, should_stop, callback_function, gui, main, ret, now>>

\* ------------------------------------------------------- process restarts
Fresh(d, cb, app) ==
    /\ disk' = d
    /\ config' = load_config(d)
    /\ processed_files' = {}
    /\ file_queue' = <<>>
    /\ observer' = 0
    /\ obs' = [o \in Observers |-> NoObserver]
    /\ events' = {}
    /\ processing_thread' = 0
    /\ thr' = [t \in Threads |-> IdleThread]
    /\ should_stop' = FALSE
    /\ callback_function' = cb
    /\ gui' = [pending |-> {}, pc |-> "idle", hash |-> <<>>]
    /\ main' = [pc |-> "idle", op |-> "none"]
    /\ ret' = "none"
    /\ hist' = [hist EXCEPT !.cbSeen = {}, !.cbDup = FALSE, !.evicted = {}, !.ignored = FALSE, !.queuedAtStop = 0, !.restarts = @ + 1, !.cost = @ + 1,
                            !.prevRun = IF app /\ disk.state = "valid" THEN DOMAIN disk.processed_files ELSE {},
                            !.durable = IF app THEN {} ELSE @]
    /\ UNCHANGED <<fs, now>>

\* The process is killed at any point and a new one constructs
\* FolderWatcher(config_path) on the file as it was left (lines 86-94), as
\* the sample at the end of folder_watcher.py does.
kill_restart ==
    /\ hist.restarts < MaxRestarts
    /\ hist.cost < MaxCost
    /\ Fresh(disk, "None", FALSE)

\* The application's own start path: KoemojiApp.start_folder_watcher (main.py,
\* lines 698-731) and main (auto_transcriber.py, lines 143-154) first write
\* the watcher's file anew, then construct the watcher and set the callback.
app_start ==
    /\ hist.restarts < MaxRestarts
    /\ hist.cost < MaxCost
    /\ \E cb \in {"sync", "async"} : Fresh(AppWrittenFile, cb, TRUE)

\* ---------------------------------------------------------- specification
Next ==
    \/ start_begin
    \/ start_raises
    \/ start_file_watcher
    \/ check_existing_files
    \/ stop_flag
    \/ stop_join
    \/ stop_wait
    \/ set_input_directory
    \/ set_supported_extensions
    \/ set_input_directory_save
    \/ set_callback
    \/ \E t \in Threads : process_file_queue_test(t)
    \/ \E t \in Threads : process_file_queue_get(t)
    \/ \E t \in Threads : mark_file_as_processed(t)
    \/ \E t \in Threads : process_media_file(t)
    \/ \E t \in Threads : process_watched_file(t)
    \/ \E t \in Threads : callback_raises(t)
    \/ \E t \in Threads : mark_add(t)
    \/ \E t \in Threads : mark_write(t)
    \/ gui_mark_begin
    \/ gui_mark_add
    \/ gui_mark_write
    \/ \E p \in Paths, s \in Sizes : file_created(p, s)
    \/ \E p \in Paths : file_removed(p)
    \/ dir_created
    \/ \E o \in Observers : on_created(o)
    \/ kill_restart
    \/ app_start

Spec == Init /\ [][Next]_vars

\* The thread scheduler's fairness: the consumer threads run, a callback
\* that was entered returns, and a start(), stop() or set_input_directory()
\* that was entered goes on. Whether and when the application calls start()
\* or stop() is left open.
Fairness ==
    /\ \A t \in Threads : WF_vars(process_file_queue_test(t)) /\ WF_vars(process_file_queue_get(t))
    /\ \A t \in Threads : WF_vars(mark_file_as_processed(t)) /\ WF_vars(process_media_file(t)) /\ WF_vars(process_watched_file(t))
    /\ \A t \in Threads : WF_vars(mark_add(t)) /\ WF_vars(mark_write(t))
    /\ WF_vars(start_file_watcher) /\ WF_vars(check_existing_files) /\ WF_vars(set_input_directory_save)
    /\ WF_vars(main.pc = "stop_begin" /\ stop_flag) /\ WF_vars(stop_join) /\ WF_vars(stop_wait)

FairSpec == Init /\ [][Next]_vars /\ Fairness

\* ------------------------------------------------------------- properties
\* Thread t enters the registered callback in this step.
CallbackBegins(t) == thr[t].pc = "get" /\ thr'[t].pc = "cb" /\ callback_function # "None"

\* This step is start()'s first: clean_old_processed_files() has run.
StartCleaned == main.pc = "idle" /\ main'.pc = "start_watch"

\* C1: no step puts on the pending queue a path whose current fingerprint is
\* a key of the ledger (on_created and check_existing_files are the steps
\* that put paths on the queue).
C1_LedgerNeverReenqueued == [][Len(file_queue') > Len(file_queue) => \A i \in (Len(file_queue) + 1)..Len(file_queue') : get_file_hash(file_queue'[i]) \notin DOMAIN config.processed_files]_vars

\* C2: within one session (since the last start()) the callback is invoked
\* at most once for a file with the same path and size.
C2_AtMostOnce == ~hist.cbDup

\* C3: a callback invocation begins for the item at the head of the queue
\* (FIFO) and only while no other consumer thread is handling an item.
C3_FifoNoOverlap == [][\A t \in Threads : CallbackBegins(t) => thr'[t].item = Head(file_queue) /\ \A u \in Threads \ {t} : ~InCallback(u)]_vars

\* C4: after a mark has written the file and returned, the file on disk is
\* at every later moment a ledger that holds the fingerprint (so that a
\* process killed at that moment and started again on the file finds it).
\* Failed writes are left out: a mark whose write failed is not in durable,
\* and nothing is asked of a file that a failed write left partial.
C4_MarkedIsOnDisk == disk.state # "failed" => \A h \in hist.durable : disk.state = "valid" /\ h \in DOMAIN disk.processed_files

\* C5: after the application's own start path, the callback is not entered
\* for a file (unchanged since) whose fingerprint the previous run's ledger
\* file held.
C5_PreviousRunSkipped == \A t \in Threads : (thr[t].pc = "cb" /\ callback_function # "None") => thr[t].hash \notin hist.prevRun

\* C6 as stated: in every reachable state the ledger has at most max_entries
\* entries.
C6_LedgerBounded == Cardinality(DOMAIN config.processed_files) <= max_entries

\* C6 as amended: the ledger has at most max_entries entries when start() has
\* run its clean_old_processed_files(); between two start() calls nothing
\* prunes it.
C6_BoundedAfterStart == [][StartCleaned => Cardinality(DOMAIN config'.processed_files) <= max_entries]_vars

C6_Witness == main.pc = "start_watch" /\ hist.evicted # {} /\ Cardinality(DOMAIN config.processed_files) = max_entries

\* What clean_old_processed_files(max_entries) leaves, with the ledger file
\* as the pruned ledger (persisted), or also as a failed write left it.
CleanPost(persisted) ==
    LET old == config.processed_files
        new == config'.processed_files IN
    IF Cardinality(DOMAIN old) > max_entries
    THEN /\ Cardinality(DOMAIN new) = max_entries
         /\ DOMAIN new \subseteq DOMAIN old
         /\ \A k \in DOMAIN new : new[k] = old[k]
         /\ \A k \in DOMAIN new : \A e \in DOMAIN old \ DOMAIN new : old[k].processed_at >= old[e].processed_at
         /\ disk' = Dumped(config') \/ (~persisted /\ disk' = MissingFile)
         /\ processed_files' = DOMAIN new
    ELSE config' = config /\ disk' = disk /\ processed_files' = processed_files

C8_NoCallbackAfterStop == [][\A t \in Threads : CallbackBegins(t) => ~(should_stop /\ hist.queuedAtStop > 0)]_vars

\* C9: the consumer thread that stop() found running eventually exits,
\* unless its item's handling never returns; and a stop() that was entered
\* returns.
C9_StoppedConsumerExits ==
    /\ \A t \in Threads : <>[](thr[t].pc = "cb") \/ ((main.pc = "stop_join" /\ processing_thread = t /\ Alive(t)) ~> ~Alive(t))
    /\ (main.pc \in {"stop_join", "stop_wait"}) ~> (main.pc = "idle")

\* C10: a start() that fails returns False, it does not raise, and when it
\* has returned False no consumer thread and no observer is running.
C10_StartFailsCleanly == ret # "start_raised" /\ (ret = "start_false" => (\A t \in Threads : ~Alive(t)) /\ Running = {})

\* The watcher is stopped: no start() or stop() is in progress, and no
\* start() was called since construction or since the last stop() returned
\* (also the stop() inside a start() that returned False).
Stopped == main.pc = "idle" /\ ret \in {"none", "stop_done", "start_false"}

\* A step that leaves the ledger, its file, the set, the queue and the
\* observer and consumer handles as they are.
StopFrame == config' = config /\ disk' = disk /\ processed_files' = processed_files /\ file_queue' = file_queue /\ observer' = observer /\ obs' = obs /\ processing_thread' = processing_thread /\ thr' = thr

\* C11: stop() called on a stopped (or never started) watcher does not
\* raise, finds no observer and no live consumer to join, changes nothing
\* but the flag, and its remaining step returns, again changing nothing.
C11_StopWhenStoppedIsNoOp ==
    [][/\ (Stopped /\ (main'.pc = "stop_join" \/ ret' = "stop_raised")) => (ret' # "stop_raised" /\ StopFrame /\ observer = 0 /\ ~(processing_thread # 0 /\ Alive(processing_thread)))
       /\ (main.pc = "stop_join" /\ main.op = "stop" /\ main'.pc # "stop_join" /\ hist'.restarts = hist.restarts /\ ~(processing_thread # 0 /\ Alive(processing_thread))) => (main'.pc = "idle" /\ ret' = "stop_done" /\ StopFrame)]_vars

\* stop() has returned on a watcher that was never started.
C11_Witness == ret = "stop_done" /\ should_stop /\ \A t \in Threads : thr[t].pc = "none"

\* Thread t's callback raises in this step (the consumer leaves pc "cb"
\* with nothing handed to the GUI and nothing marked).
CallbackRaised(t) == thr[t].pc = "cb" /\ callback_function # "None" /\ thr'[t].pc \in {"loop", "exited"} /\ gui' = gui /\ hist'.restarts = hist.restarts

\* C12: when the callback raises, the consumer is back at the top of its
\* loop with the queue, the ledger, its file and the set as the callback left
\* them; a consumer leaves the loop only when the stop flag is set; and while
\* a consumer lives and the flag is not set, a queue that is not empty is
\* drained (unless a callback never returns).
C12_RaisingCallbackIsSkipped ==
    /\ [][\A t \in Threads : /\ CallbackRaised(t) => (thr'[t].pc = "loop" /\ file_queue' = file_queue /\ config' = config /\ disk' = disk /\ processed_files' = processed_files)
                             /\ (Alive(t) /\ thr'[t].pc = "exited") => should_stop]_vars
    /\ <>[](\E t \in Threads : thr[t].pc = "cb") \/ ((file_queue # <<>> /\ \E t \in Threads : Alive(t)) ~> (file_queue = <<>> \/ should_stop \/ \A t \in Threads : ~Alive(t)))

\* A callback has raised (nothing was handed on or marked for the item, and
\* the consumer is back in its loop) while another item is still queued.
C12_Witness == callback_function = "sync" /\ file_queue # <<>> /\ hist.cbSeen # {} /\ hist.cbSeen \cap DOMAIN config.processed_files = {} /\ \A t \in Threads : thr[t].pc \in {"none", "loop", "get"}

\* C13: whenever no start() or stop() call is in progress, at most one
\* consumer thread is alive and at most one observer is running.
C13_OneSession == main.pc = "idle" => (Cardinality({t \in Threads : Alive(t)}) <= 1 /\ Cardinality(Running) <= 1)

\* C14: the ledger file is never left malformed by writers that overlapped,
\* and a well-formed file holds every fingerprint whose mark has written it
\* and returned.
C14_LedgerFileWellFormed == disk.state # "garbled" /\ (disk.state = "valid" => hist.durable \subseteq DOMAIN disk.processed_files)

\* A handler takes event e in this step.
HandlesEvent(e) == e \in events /\ events' = events \ {e} /\ main' = main /\ hist'.restarts = hist.restarts /\ hist'.cost = hist.cost

\* The extension of the event's path is one of the handler's list, letter
\* case apart.
InAcceptedSet(e) == \E x \in obs[e.obs].exts : lower(x) = lower(ExtOf(e.path))

\* C21: a handler puts a path on the queue only for an event that is not a
\* directory event and whose extension is in the accepted set, and then it
\* is the event's path, at the tail; for a directory event and for an
\* extension that is not in the set, the queue, the ledger, the set and the
\* file stay as they are.
C21_FilterEnqueuesOnlyMedia ==
    [][\A e \in events : HandlesEvent(e) =>
        /\ file_queue' # file_queue => (~e.is_directory /\ InAcceptedSet(e) /\ file_queue' = Append(file_queue, e.path))
        /\ (e.is_directory \/ ~InAcceptedSet(e)) => (file_queue' = file_queue /\ config' = config /\ processed_files' = processed_files /\ disk' = disk)]_vars

C21_Witness ==
    /\ hist.ignored /\ events = {} /\ file_queue = <<>>
    /\ observer # 0 /\ obs[observer].state = "running"
    /\ \E p \in Paths : fs[p] > 0 /\ get_file_hash(p) \notin processed_files /\ \A x \in obs[observer].exts : lower(x) # lower(ExtOf(p))

\* start()'s scan of the directory runs in this step.
Scans == main.pc = "start_scan" /\ main'.pc = "idle" /\ hist'.restarts = hist.restarts

\* The unprocessed files of the directory whose extension is one of the
\* configured list, letter case apart.
CaseBlindUnprocessed == {p \in Paths : fs[p] > 0 /\ get_file_hash(p) \notin processed_files /\ \E x \in config.supported_extensions : lower(x) = lower(ExtOf(p))}

\* C22: the event filter and the startup scan take a file (one that is not
\* processed yet) exactly when its extension equals one of the configured
\* extensions, letter case apart.
C22_CaseInsensitiveExtensions ==
    [][/\ \A e \in events : (HandlesEvent(e) /\ ~e.is_directory /\ get_file_hash(e.path) \notin HandlerSet(e.obs)) => (file_queue' = Append(file_queue, e.path) <=> InAcceptedSet(e))
       /\ (Scans /\ config.input_directory # "") => \A p \in Paths : (\E i \in (Len(file_queue) + 1)..Len(file_queue') : file_queue'[i] = p) <=> p \in CaseBlindUnprocessed]_vars

\* C25: a start() that follows a returned stop() begins with none of the
\* paths that were queued when that stop() was called still on the queue.
C25_QueueEmptyAtRestart == [][(StartCleaned /\ ret = "stop_done") => hist.queuedAtStop = 0]_vars

\* C26: while the last start() or stop() call that returned is a start() that
\* returned True and no stop() has been called since, no step of the process
\* takes a fingerprint out of the ledger or out of the set.
C26_LedgerGrows == [][(ret = "start_true" /\ hist'.restarts = hist.restarts) => (DOMAIN config.processed_files \subseteq DOMAIN config'.processed_files /\ processed_files \subseteq processed_files')]_vars

\* The observer o keeps running over the step.
KeepsRunning(o) == obs[o].state = "running" /\ obs'[o].state = "running"

\* The observer o starts to deliver events in the step.
BeginsRunning(o) == obs[o].state # "running" /\ obs'[o].state = "running"

\* C27: a running event filter keeps the extension list it was started with,
\* and a filter with another list than a running one comes up only when the
\* running one has been stopped.
C27_ConfigFixedInSession == [][\A o \in Observers : (KeepsRunning(o) => obs'[o].exts = obs[o].exts) /\ (BeginsRunning(o) => \A u \in Running : obs[u].exts = obs'[o].exts)]_vars

\* No thread is between the entry insertion and the return of
\* mark_file_as_processed.
NoMarkInProgress == gui.pc = "idle" /\ \A t \in Threads : thr[t].pc \notin {"m_add", "m_write"}

\* C28: when the last start() returned True and no mark is in progress, the
\* set that the scan and the consumer test (self.processed_files) equals the
\* ledger's key set, and the handler of every running observer tests that
\* same set object, not one that was left behind by a rebinding.
C28_OneDuplicateSet == (ret = "start_true" /\ NoMarkInProgress) => (processed_files = DOMAIN config.processed_files /\ \A o \in Running : ~obs[o].stale)

\* ---------------------------------------------------- the GUI application
\* KoemojiApp (main.py) with a running watcher whose callback is
\* process_watched_file.  Of the watcher only what it hands over is kept:
\* its own steps are those of Spec.  Besides the marking thread's fields, gui
\* holds the list box, the update_gui closures that root.after has scheduled
\* (after), the application's own file_queue, the processing_files flag and
\* the transcription thread (worker); handed, done and failed are history:
\* the files the watcher handed over, how often each was transcribed, and
\* those whose transcription raised.
GuiApp == [pending |-> {}, pc |-> "idle", hash |-> <<>>, listbox |-> <<>>, after |-> <<>>, queue |-> <<>>, processing_files |-> FALSE,
           worker |-> [pc |-> "none", item |-> 0], handed |-> {}, done |-> [p \in Paths |-> 0], failed |-> {}]

GuiInit ==
    /\ fs = [p \in Paths |-> 1]
    /\ disk = AppWrittenFile
    /\ config = load_config(disk)
    /\ processed_files = {}
    /\ file_queue = <<>>
    /\ observer = 0
    /\ obs = [o \in Observers |-> NoObserver]
    /\ events = {}
    /\ processing_thread = 0
    /\ thr = [t \in Threads |-> IdleThread]
    /\ should_stop = FALSE
    /\ callback_function = "async"
    /\ gui = GuiApp
    /\ main = [pc |-> "idle", op |-> "none"]
    /\ ret = "start_true"
    /\ now = 1
    /\ hist = NoHist

InList(p, q) == \E i \in DOMAIN q : q[i] = p

\* The watcher's consumer invokes process_watched_file(p) (lines 773-794) for
\* a file it detected and found unprocessed: update_gui is scheduled.
watched_file_detected(p) ==
    /\ p \notin gui.handed
    /\ fs[p] > 0
    /\ get_file_hash(p) \notin processed_files
    /\ gui' = [gui EXCEPT !.after = Append(@, p), !.handed = @ \cup {p}]
    /\ UNCHANGED <<fs, disk, config, processed_files, file_queue, observer, obs, events, processing_thread, thr, should_stop, callback_function, main, ret, now, hist>>

\* start_transcription (lines 443-515) with the list box holding q: nothing
\* happens while the transcription thread is alive; otherwise the queue is
\* cleared, filled with every file of the list box that exists, and a
\* thread is started.
start_transcription(g, q) ==
    IF g.worker.pc # "none" \/ g.processing_files \/ SelectSeq(q, LAMBDA x : fs[x] > 0) = <<>> THEN [g EXCEPT !.listbox = q]
    ELSE [g EXCEPT !.listbox = q, !.queue = SelectSeq(q, LAMBDA x : fs[x] > 0), !.worker = [pc |-> "started", item |-> 0]]

\* update_gui (lines 780-791) on the GUI thread: the file joins the list box
\* if it is not in it, and start_transcription() is called unless
\* processing_files is set.
update_gui ==
    /\ gui.after # <<>>
    /\ LET p == Head(gui.after)
           q == IF InList(p, gui.listbox) THEN gui.listbox ELSE Append(gui.listbox, p)
           g == [gui EXCEPT !.after = Tail(@)] IN
       gui' = IF g.processing_files THEN [g EXCEPT !.listbox = q] ELSE start_transcription(g, q)
    /\ UNCHANGED <<fs, disk, config, processed_files, file_queue, observer, obs, events, processing_thread, thr, should_stop, callback_function, main, ret, now, hist>>

\* KoemojiApp.process_file_queue (lines 517-566), the transcription thread:
\* it sets processing_files (line 521, the model loaded),
gui_worker_begin ==
    /\ gui.worker.pc = "started"
    /\ gui' = [gui EXCEPT !.processing_files = TRUE, !.worker.pc = "loop"]
    /\ UNCHANGED <<fs, disk, config, processed_files, file_queue, observer, obs, events, processing_thread, thr, should_stop, callback_function, main, ret, now, hist>>

\* takes the next file of its queue, or with the queue empty clears
\* processing_files in its finally clause (lines 532-533, 562-563),
gui_worker_get ==
    /\ gui.worker.pc = "loop"
    /\ gui' = IF gui.queue = <<>> THEN [gui EXCEPT !.processing_files = FALSE, !.worker.pc = "exiting"]
              ELSE [gui EXCEPT !.queue = Tail(@), !.worker = [pc |-> "transcribing", item |-> Head(gui.queue)]]
    /\ UNCHANGED <<fs, disk, config, processed_files, file_queue, observer, obs, events, processing_thread, thr, should_stop, callback_function, main, ret, now, hist>>

\* transcribes it (transcribe_file, lines 568-642): on success a thread is
\* started that marks the file; an exception is caught by the loop (lines
\* 545-547) and nothing is marked,
gui_transcribe_file ==
    /\ gui.worker.pc = "transcribing"
    /\ \E outcome \in {"success", "raised"} :
          gui' = IF outcome = "success"
                 THEN [gui EXCEPT !.worker = [pc |-> "loop", item |-> 0], !.done[gui.worker.item] = @ + 1, !.pending = @ \cup {gui.worker.item}]
                 ELSE [gui EXCEPT !.worker = [pc |-> "loop", item |-> 0], !.failed = @ \cup {gui.worker.item}]
    /\ UNCHANGED <<fs, disk, config, processed_files, file_queue, observer, obs, events, processing_thread, thr, should_stop, callback_function, main, ret, now, hist>>

\* and ends.
gui_worker_exit ==
    /\ gui.worker.pc = "exiting"
    /\ gui' = [gui EXCEPT !.worker.pc = "none"]
    /\ UNCHANGED <<fs, disk, config, processed_files, file_queue, observer, obs, events, processing_thread, thr, should_stop, callback_function, main, ret, now, hist>>

GuiNext ==
    \/ \E p \in Paths : watched_file_detected(p)
    \/ update_gui
    \/ gui_worker_begin
    \/ gui_worker_get
    \/ gui_transcribe_file
    \/ gui_worker_exit
    \/ gui_mark_begin
    \/ gui_mark_add
    \/ gui_mark_write

GuiSpec == GuiInit /\ [][GuiNext]_vars

\* Tk's main loop runs the scheduled closures and the threads run.
GuiFairness ==
    /\ WF_vars(update_gui) /\ WF_vars(gui_worker_begin) /\ WF_vars(gui_worker_get) /\ WF_vars(gui_transcribe_file) /\ WF_vars(gui_worker_exit)
    /\ WF_vars(gui_mark_begin) /\ WF_vars(gui_mark_add) /\ WF_vars(gui_mark_write)

GuiFairSpec == GuiInit /\ [][GuiNext]_vars /\ GuiFairness

\* Nothing is scheduled, queued, being transcribed or being marked.
GuiQuiet == gui.after = <<>> /\ gui.queue = <<>> /\ gui.worker.pc = "none" /\ gui.pending = {} /\ gui.pc = "idle"

\* C24: once the work on the files handed to process_watched_file has ended,
\* each file whose transcription succeeded or raised has a ledger entry for
\* its fingerprint.
C24_HandledEndsInLedger == GuiQuiet => \A p \in Paths : (gui.done[p] > 0 \/ p \in gui.failed) => get_file_hash(p) \in DOMAIN config.processed_files

\* C29: no file the watcher handed to process_watched_file is transcribed a
\* second time.
C29_TranscribedOnce == \A p \in gui.handed : gui.done[p] <= 1

\* C30: a file the watcher handed to process_watched_file is transcribed in
\* the end, unless a transcription raised.
C30_HandedIsTranscribed == \A p \in Paths : (p \in gui.handed) ~> (gui.done[p] > 0 \/ gui.failed # {})

\* ------------------------------------------------ get_file_hash, on its own
\* The files of the directory in sizes 0..HashMaxSize (0: getsize raises), and
\* in ret the last HashCalls calls of get_file_hash, newest first: the path
\* given, the size the file had, the fingerprint returned.
HashInit ==
    /\ fs \in [Paths -> 0..HashMaxSize]
    /\ disk = MissingFile
    /\ ret = <<>>
    /\ Constructed

\* Another program writes, truncates, removes or locks away the file.
hash_resize ==
    /\ \E p \in Paths, s \in 0..HashMaxSize : s # fs[p] /\ fs' = [fs EXCEPT ![p] = s]
    /\ UNCHANGED <<disk, config, processed_files, file_queue, observer, obs, events, processing_thread, thr, should_stop, callback_function, gui, main, ret, now, hist>>

\* One call get_file_hash(p): it returns in both branches.
hash_call ==
    /\ \E p \in Paths : ret' = SubSeq(<<[path |-> p, size |-> fs[p], hash |-> get_file_hash(p)]>> \o ret, 1, Min(HashCalls, Len(ret) + 1))
    /\ UNCHANGED <<fs, disk, config, processed_files, file_queue, observer, obs, events, processing_thread, thr, should_stop, callback_function, gui, main, now, hist>>

HashNext ==
    \/ hash_resize
    \/ hash_call

HashSpec == HashInit /\ [][HashNext]_vars

\* C16: of two calls of get_file_hash with the same path, those made at the
\* same size (or both on an inaccessible file) returned the same fingerprint,
\* and those made on an accessible file at different sizes returned
\* different fingerprints.
C16_HashOfPathAndSize ==
    \A i, j \in DOMAIN ret : ret[i].path = ret[j].path =>
        /\ ret[i].size = ret[j].size => ret[i].hash = ret[j].hash
        /\ (ret[i].size > 0 /\ ret[j].size > 0 /\ ret[i].size # ret[j].size) => ret[i].hash # ret[j].hash

C16_Witness ==
    /\ Len(ret) = HashCalls
    /\ ret[1].path = ret[2].path /\ ret[2].path = ret[3].path
    /\ ret[1].size = 0 /\ ret[2].size > 0 /\ ret[3].size > ret[2].size

\* ------------------------------------------- a run on the ledger of another
\* The watcher constructed on the ledger an earlier run left, with the file
\* of the ledger's oldest entry still in the watch directory.
KeptInit ==
    /\ fs = [p \in Paths |-> IF <<p, 1>> \in KeptHashes THEN 1 ELSE 0]
    /\ disk \in {KeptFile, ListFile}
    /\ ret = "none"
    /\ Constructed

KeptSpec == KeptInit /\ [][Next]_vars

KeptFairSpec == KeptInit /\ [][Next]_vars /\ Fairness

\* Path p waits on the queue of a running session that has a callback.
Waits(p) == callback_function # "None" /\ ~should_stop /\ get_file_hash(p) \notin processed_files /\ \E i \in DOMAIN file_queue : file_queue[i] = p

\* Path p is in the callback's hands.
Handed(p) == callback_function # "None" /\ \E t \in Threads : thr[t].pc = "cb" /\ thr[t].item = p

\* C23: the step of start() that returns True has put on the queue every
\* file of the directory with an accepted extension and no ledger entry for
\* its fingerprint; and a path that waits on the queue is handed to the
\* callback, unless the session is stopped or ends, the callback is taken
\* away, the file is marked in the meantime, or a callback never returns.
C23_ScanQueuesAndDelivers ==
    /\ [][(Scans /\ ret' = "start_true") => \A p \in Paths : (fs[p] > 0 /\ lower(ExtOf(p)) \in config.supported_extensions /\ get_file_hash(p) \notin DOMAIN config.processed_files) => \E i \in (Len(file_queue) + 1)..Len(file_queue') : file_queue'[i] = p]_vars
    /\ <>[](\E t \in Threads : thr[t].pc = "cb") \/ \A p \in Paths : Waits(p) ~> (Handed(p) \/ should_stop \/ callback_function = "None" \/ get_file_hash(p) \in processed_files \/ \A t \in Threads : ~Alive(t))

\* The file that was in the directory all along (nothing was created: the
\* budget shows at most one charged step) is in the callback's hands after a
\* start() that returned True.
C23_Witness == ret = "start_true" /\ hist.cost <= 1 /\ \E p \in Paths : fs[p] > 0 /\ Handed(p)

\* C17: the callback is not entered for a file (unchanged since it was
\* marked) whose entry start() has taken out of the ledger: the watcher
\* removes no entry in a way that makes a file still in the watch directory
\* be processed again.
C17_EvictedNeverAgain == [][\A t \in Threads : CallbackBegins(t) => thr'[t].hash \notin hist.evicted]_vars

\* Thread t takes from the queue a path whose fingerprint is in the set.
DequeuesProcessed(t) == thr[t].pc = "get" /\ thr'[t].pc # "get" /\ hist'.restarts = hist.restarts /\ file_queue # <<>> /\ file_queue' = Tail(file_queue) /\ get_file_hash(Head(file_queue)) \in processed_files

\* C18: the re-check skips a dequeued path whose fingerprint is in the set,
\* and so the callback is not entered for a copy of a path whose first copy
\* a consumer is marking synchronously at that moment (the path is processed
\* once).
C18_QueuedTwiceProcessedOnce ==
    [][\A t \in Threads :
        /\ DequeuesProcessed(t) => (thr'[t].pc = "loop" /\ hist'.cbSeen = hist.cbSeen /\ config' = config)
        /\ CallbackBegins(t) => ~\E u \in Threads \ {t} : thr[u].pc \in {"m_add", "m_write"} /\ thr[u].hash = thr'[t].hash]_vars

\* Thread t, with no callback registered, marks the item it dequeued.
SelfMarks(t) == thr[t].pc = "cb" /\ thr'[t].pc = "m_add" /\ callback_function = "None"

\* Thread t returns from such a mark, and its write did not fail.
SelfMarkReturns(t) ==
    /\ thr[t].pc = "m_write" /\ thr'[t].pc = "loop" /\ hist'.cost = hist.cost
    /\ thr[t].hash \in DOMAIN config.processed_files /\ config.processed_files[thr[t].hash].status = "none"

\* C19: with no callback registered, the item a consumer dequeued gets a
\* ledger entry with the timestamp and no result field, and when the mark
\* returns (before the thread dequeues again) the ledger file holds that
\* entry.  A write that failed is left out (see C20).
C19_SelfMarkPersisted ==
    [][\A t \in Threads :
        /\ SelfMarks(t) => (thr'[t].hash \in DOMAIN config'.processed_files /\ config'.processed_files[thr'[t].hash] = [processed_at |-> now, status |-> "none"])
        /\ SelfMarkReturns(t) => (disk'.state = "valid" /\ thr[t].hash \in DOMAIN disk'.processed_files /\ disk'.processed_files[thr[t].hash].status = "none")]_vars

\* Thread t (or the GUI's marking thread) leaves save_config, called by
\* mark_file_as_processed, after a write that failed.
MarkWriteFails(t) == thr[t].pc = "m_write" /\ thr'[t].pc # "m_write" /\ hist'.restarts = hist.restarts /\ hist'.cost > hist.cost
GuiMarkWriteFails == gui.pc = "m_write" /\ gui'.pc # "m_write" /\ hist'.restarts = hist.restarts /\ hist'.cost > hist.cost

\* The watch session is as it was: observer, consumer thread, flag, queue.
StillRunning == observer' = observer /\ obs' = obs /\ processing_thread' = processing_thread /\ should_stop' = should_stop /\ file_queue' = file_queue

\* C20: when the write of the ledger file fails inside
\* mark_file_as_processed, the call returns to its caller (the consumer goes
\* back to its loop), the fingerprint is a key of the in-memory ledger and
\* a member of the duplicate-check set, and the session runs on.
C20_FailedWriteKeepsMemory ==
    [][/\ \A t \in Threads : MarkWriteFails(t) => (thr'[t].pc = "loop" /\ thr[t].hash \in DOMAIN config'.processed_files /\ thr[t].hash \in processed_files' /\ StillRunning)
       /\ GuiMarkWriteFails => (gui'.pc = "idle" /\ gui.hash \in DOMAIN config'.processed_files /\ gui.hash \in processed_files' /\ StillRunning)]_vars

C20_Witness ==
    /\ disk.state = "failed" /\ ret = "start_true" /\ main.pc = "idle" /\ gui.pc = "idle"
    /\ observer # 0 /\ processing_thread # 0 /\ thr[processing_thread].pc \in {"loop", "get"}
    /\ \A t \in Threads : thr[t].pc \notin {"m_add", "m_write"}
    /\ \E h \in (processed_files \cap DOMAIN config.processed_files) \ hist.durable : h[1] \in Paths

\* C15: start() does not raise because of what the file holds: when it
\* raises, it had got as far as creating an observer (the case of C10).
C15_StartToleratesFile == ret = "start_raised" => observer # 0

====
